---- MODULE Spec2Model ----
(***************************************************************************)
(* Playback timeline of the spear audio player (src/playback_timeline.py): *)
(* a persisted, cursor-addressed log of song references with back/forward  *)
(* navigation, pruning and renumbering, together with the part of the song *)
(* catalog (src/song_metadata.py) that the timeline consults, and the      *)
(* playback session (src/play_song.py): the poll loop of the main thread   *)
(* and the keyboard thread working on the fields of one MusicPlayer.       *)
(***************************************************************************)
EXTENDS Integers, Sequences, FiniteSets, TLC

VARIABLES
    timeline,   \* table playback_timeline: position -> song_uid
    cursor,     \* playback_cursor.position (-1 = empty)
    resume_ms,  \* playback_cursor.resume_ms
    songs,      \* table songs: the uids of the catalog
    call,       \* the last call made on the store: [op, arg, ret]
    pre         \* the persisted state in which that call was made, and
                \* back_from: the cursor that a skip_back left to reach that
                \* state (a set of at most one position)

VARIABLES
    player,           \* the fields of the MusicPlayer instance _player
    vlc,              \* the backend player: [state, time (ms)]
    now,              \* time.time(), in seconds
    main_thread,      \* the main thread: [pc, current_total, caller (the
                      \* function of cli_menu.py that called play_song),
                      \* walk (the locals of _play_playlist)]
    keyboard_thread,  \* the thread of _keyboard_listener: [pc, song]
    seen              \* what an observer of the session has seen so far:
                      \* keys read, who wrote which field, the listens logged,
                      \* the mode of the last _pick_next_current, the queues
                      \* walked, the position of the first entry of the queue,
                      \* nav (a key has moved the cursor and the coordinator
                      \* has not started a session since)

VARIABLES
    playlist          \* the rows of playlist_items of one playlist: [items
                      \* (rows [id, song_uid, position]), seq (the last
                      \* AUTOINCREMENT id)], with the last call on it and the
                      \* items before that call

VARIABLES
    seek              \* one call of MusicPlayer._seek: what the backend's
                      \* get_time and get_length returned, the key, and the
                      \* position handed to set_time ({} before the call)

sessionVars == <<player, vlc, now, main_thread, keyboard_thread, seen>>

vars == <<timeline, cursor, resume_ms, songs, call, pre,
          player, vlc, now, main_thread, keyboard_thread, seen, playlist, seek>>

(***************************************************************************)
(* Bounds of the model.  MAX_PAST_ENTRIES is the pruning window: the       *)
(* source sets it to 100 (playback_timeline.py:24) and passes it to        *)
(* _prune_past as its limit; the model scales it down so that pruning      *)
(* happens within the explored timelines.                                  *)
(***************************************************************************)
MAX_PAST_ENTRIES == 1
MaxLen == 3
MaxList == 2
\* a session: the keys read and the clock ticks it is followed for
MaxKeys == 2
MaxTicks == 2
MaxWalks == 1
MaxItems == 3
MaxIds == 4
\* durations and positions of the seek machine, in half seconds
MaxDuration == 80

None == "None"

(***************************************************************************)
(* Identifiers.  A uid is a Python value; UidShape gives what the          *)
(* validator looks at: whether it is a str, the number of characters       *)
(* before an optional final newline, whether those are all [a-zA-Z0-9],    *)
(* and whether a final newline follows them.                               *)
(***************************************************************************)
SongUIDs == {"s1", "s2"}
ForeignUIDs == {"short", "nl", "n42"}
AllUIDs == SongUIDs \cup ForeignUIDs
CallerUIDs == SongUIDs \cup {"short", "n42"}
\* positions in ms that a caller saves with set_resume_ms
ResumeOffsets == {0, 5000}

UidShape(uid) ==
    CASE uid = "short" -> [is_str |-> TRUE, body |-> 15, body_alnum |-> TRUE, final_nl |-> FALSE]
      [] uid = "nl"    -> [is_str |-> TRUE, body |-> 16, body_alnum |-> TRUE, final_nl |-> TRUE]
      [] uid = "n42"   -> [is_str |-> FALSE, body |-> 0, body_alnum |-> FALSE, final_nl |-> FALSE]
      [] OTHER         -> [is_str |-> TRUE, body |-> 16, body_alnum |-> TRUE, final_nl |-> FALSE]

\* re.compile(r"^[a-zA-Z0-9]{16}$").match: "$" also matches before a final newline
UID_PATTERN(uid) == UidShape(uid).body_alnum /\ UidShape(uid).body = 16

\* validate_uid raises ValueError unless this holds
validate_uid(uid) == UidShape(uid).is_str /\ UID_PATTERN(uid)

(***************************************************************************)
(* Helpers on the tables.  A store value d is a record                     *)
(* [timeline, cursor, resume_ms]; the functions of playback_timeline.py    *)
(* become operators from store values to store values.                     *)
(***************************************************************************)
Min(S) == CHOOSE x \in S : \A y \in S : x <= y
Max(S) == CHOOSE x \in S : \A y \in S : x >= y

EmptyTimeline == [p \in {} |-> None]

DB == [timeline |-> timeline, cursor |-> cursor, resume_ms |-> resume_ms]

\* ORDER BY position: the positions of S in ascending order
RECURSIVE OrderByPosition(_)
OrderByPosition(S) ==
    IF S = {} THEN <<>>
    ELSE <<Min(S)>> \o OrderByPosition(S \ {Min(S)})

\* INSERT INTO playback_timeline (song_uid, position, added_at)
InsertRow(tl, position, song_uid) ==
    [p \in DOMAIN tl \cup {position} |-> IF p = position THEN song_uid ELSE tl[p]]

\* DELETE FROM playback_timeline WHERE position in gone
DeleteRows(tl, gone) == [p \in DOMAIN tl \ gone |-> tl[p]]

\* get_song(uid) is not None
get_song(uid, catalog) == uid \in catalog

\* mutant: a uid that was once in the catalog is still offered
get_random_song_stale(catalog) == SongUIDs

\* get_random_song: the uids ORDER BY RANDOM() LIMIT 1 can return
get_random_song(catalog) == catalog

_set_cursor_keep(d, position) == [d EXCEPT !.cursor = position]

_set_cursor(d, position) == [d EXCEPT !.cursor = position, !.resume_ms = 0]

set_resume_ms(d, ms) == [d EXCEPT !.resume_ms = ms]

clear_timeline(d) == [d EXCEPT !.timeline = EmptyTimeline, !.cursor = -1]

\* mutant: the comparison also catches the row at the cursor
_delete_future_ge(d, cursor_pos) ==
    [d EXCEPT !.timeline = DeleteRows(@, {p \in DOMAIN @ : p >= cursor_pos})]

_delete_future(d, cursor_pos) ==
    [d EXCEPT !.timeline = DeleteRows(@, {p \in DOMAIN @ : p > cursor_pos})]

_renumber_positions(d) ==
    LET current_song ==
            IF d.cursor >= 0 /\ d.cursor \in DOMAIN d.timeline
            THEN d.timeline[d.cursor] ELSE None
        order == OrderByPosition(DOMAIN d.timeline)
        n == Len(order)
        entries == [new_pos \in 0..(n - 1) |-> d.timeline[order[new_pos + 1]]]
        hits == {new_pos \in 0..(n - 1) : entries[new_pos] = current_song}
        new_cursor == IF hits = {} THEN -1 ELSE Max(hits)
    IN  [d EXCEPT !.timeline = entries, !.cursor = new_cursor]

\* _prune_past, its own transaction: the oldest past rows are deleted
_prune_deletes(d, limit) ==
    LET cursor_pos == d.cursor
        past == {p \in DOMAIN d.timeline : p < cursor_pos}
        past_count == Cardinality(past)
        to_delete == past_count - limit
        order == OrderByPosition(past)
        positions_to_delete ==
            IF past_count > limit THEN {order[i] : i \in 1..to_delete} ELSE {}
    IN  [d EXCEPT !.timeline = DeleteRows(@, positions_to_delete)]

_prune_past(d, limit) == _renumber_positions(_prune_deletes(d, limit))

append_song(d, song_uid) ==
    LET cursor_pos == d.cursor
        d1 == _delete_future(d, cursor_pos)
        new_pos == cursor_pos + 1
        d2 == [d1 EXCEPT !.timeline = InsertRow(@, new_pos, song_uid)]
        d3 == _set_cursor(d2, new_pos)
    IN  _prune_past(d3, MAX_PAST_ENTRIES)

RECURSIVE InsertList(_, _, _, _)
InsertList(tl, song_uids, cursor_pos, idx) ==
    IF idx >= Len(song_uids) THEN tl
    ELSE InsertList(InsertRow(tl, cursor_pos + 1 + idx, song_uids[idx + 1]),
                    song_uids, cursor_pos, idx + 1)

append_song_list(d, song_uids) ==
    LET cursor_pos == d.cursor
        d1 == _delete_future(d, cursor_pos)
        d2 == [d1 EXCEPT !.timeline = InsertList(@, song_uids, cursor_pos, 0)]
        d3 == _set_cursor(d2, cursor_pos + 1)
    IN  _prune_past(d3, MAX_PAST_ENTRIES)

advance_cursor_stay(d) == _set_cursor(d, d.cursor)

advance_cursor(d) == _set_cursor(d, d.cursor + 1)

\* mutant: the scan stops at any row, resolvable or not
SkipBackHits_any(d, catalog) ==
    {new_pos \in 0..(d.cursor - 1) : new_pos \in DOMAIN d.timeline}

\* skip_back: the positions range(cursor_pos - 1, -1, -1) whose row resolves
SkipBackHits(d, catalog) ==
    {new_pos \in 0..(d.cursor - 1) :
        new_pos \in DOMAIN d.timeline /\ get_song(d.timeline[new_pos], catalog)}

skip_back_ret(d, catalog) ==
    IF d.cursor <= 0 \/ SkipBackHits(d, catalog) = {} THEN None
    ELSE d.timeline[Max(SkipBackHits(d, catalog))]

\* mutant: the song is returned, the cursor stays
skip_back_unmoved(d, catalog) == d

skip_back(d, catalog) ==
    IF d.cursor <= 0 \/ SkipBackHits(d, catalog) = {} THEN d
    ELSE _set_cursor(d, Max(SkipBackHits(d, catalog)))

\* mutant: every future row gets song_uids[0]
_shuffle_future_first(d, cursor_pos, perm) ==
    LET order == OrderByPosition({p \in DOMAIN d.timeline : p > cursor_pos})
    IN  [d EXCEPT !.timeline =
            [p \in DOMAIN @ |-> IF p > cursor_pos THEN @[order[perm[1]]] ELSE @[p]]]

\* _shuffle_future with the permutation perm that random.shuffle produced
_shuffle_future(d, cursor_pos, perm) ==
    LET order == OrderByPosition({p \in DOMAIN d.timeline : p > cursor_pos})
        song_uids == [i \in 1..Len(order) |-> d.timeline[order[perm[i]]]]
        slot(p) == CHOOSE i \in 1..Len(order) : order[i] = p
    IN  [d EXCEPT !.timeline =
            [p \in DOMAIN @ |-> IF p > cursor_pos THEN song_uids[slot(p)] ELSE @[p]]]

FutureCount(d) == Cardinality({p \in DOMAIN d.timeline : p > d.cursor})

\* skip_forward, second half: the first row beyond cursor_pos that resolves
SkipForwardHits(d, cursor_pos, catalog) ==
    {pos \in DOMAIN d.timeline :
        pos > cursor_pos /\ get_song(d.timeline[pos], catalog)}

find_next_ret(d, cursor_pos, catalog) ==
    IF SkipForwardHits(d, cursor_pos, catalog) = {} THEN None
    ELSE d.timeline[Min(SkipForwardHits(d, cursor_pos, catalog))]

\* mutant: when no row of the future resolves, a song of the catalog is
\* appended as on an exhausted future
find_next_random(d, cursor_pos, catalog) ==
    IF SkipForwardHits(d, cursor_pos, catalog) # {}
    THEN _set_cursor(d, Min(SkipForwardHits(d, cursor_pos, catalog)))
    ELSE IF catalog = {} THEN d
    ELSE LET new_pos == Max(DOMAIN d.timeline) + 1
         IN  _set_cursor([d EXCEPT !.timeline =
                            InsertRow(@, new_pos, CHOOSE uid \in catalog : TRUE)], new_pos)

\* mutant: the scan runs from the far end of the future
find_next_last(d, cursor_pos, catalog) ==
    IF SkipForwardHits(d, cursor_pos, catalog) = {} THEN d
    ELSE _set_cursor(d, Max(SkipForwardHits(d, cursor_pos, catalog)))

find_next(d, cursor_pos, catalog) ==
    IF SkipForwardHits(d, cursor_pos, catalog) = {} THEN d
    ELSE _set_cursor(d, Min(SkipForwardHits(d, cursor_pos, catalog)))

\* skip_forward, first half: no future, append random_uid
append_random(d, random_uid) ==
    LET new_pos == d.cursor + 1
    IN  _set_cursor([d EXCEPT !.timeline = InsertRow(@, new_pos, random_uid)], new_pos)

(***************************************************************************)
(* The state machine.                                                      *)
(***************************************************************************)
Commit(d) ==
    /\ timeline' = d.timeline
    /\ cursor' = d.cursor
    /\ resume_ms' = d.resume_ms

Log(op, arg, ret) ==
    /\ UNCHANGED <<playlist, seek>>
    /\ call' = [op |-> op, arg |-> arg, ret |-> ret]
    /\ pre' = [timeline |-> timeline, cursor |-> cursor,
               resume_ms |-> resume_ms, songs |-> songs,
               back_from |-> IF call.op = "skip_back" /\ call.ret # None
                             THEN {pre.cursor} ELSE {}]

\* a call made while no session runs
Record(op, arg, ret) == Log(op, arg, ret) /\ UNCHANGED sessionVars

\* the explored window: positions and cursor stay below MaxLen
Fits(d) == (\A p \in DOMAIN d.timeline : p < MaxLen) /\ d.cursor < MaxLen

\* start_time is None or a time: the set of at most one time
NoTime == {}
Since(start_time) == CHOOSE t \in start_time : TRUE

\* MusicPlayer.__init__
MusicPlayer ==
    [is_playing |-> FALSE, is_stopped |-> FALSE, should_exit |-> FALSE,
     pending_song_uid |-> None, exit_reason |-> "ended", loop_mode |-> FALSE,
     loop_count |-> 0, current_song_uid |-> None, start_time |-> NoTime,
     total_played_time |-> 0, last_duration |-> 0, listen_log_count |-> 0,
     last_position_ms |-> 0]

Fields == {"is_playing", "is_stopped", "should_exit", "pending_song_uid",
           "exit_reason", "start_time", "total_played_time",
           "listen_log_count"}

\* the locals of _play_playlist; no queue is walked
NoWalk == [song_list |-> <<>>, timeline_base |-> 0, i |-> 0,
           aborted |-> FALSE, navigated_away |-> FALSE]

\* no seek key was pressed
NoSeek == [get_time |-> 0, get_length |-> 0, key |-> None, set_time |-> {}]

\* create_playlist: a playlist without items
NoPlaylist ==
    [items |-> {}, seq |-> 0, call |-> [op |-> "create_playlist", arg |-> None, ret |-> None],
     pre |-> {}]

\* no session has run yet
NoSession ==
    /\ player = MusicPlayer
    /\ vlc = [state |-> "NothingSpecial", time |-> 0]
    /\ now = 0
    /\ main_thread = [pc |-> "menu", current_total |-> 0, caller |-> None,
                      walk |-> NoWalk]
    /\ keyboard_thread = [pc |-> "unborn", song |-> None, key |-> None]
    /\ seen = [keys |-> 0, writers |-> [f \in Fields |-> {}],
               play_through |-> 0, listens |-> {}, exit_position |-> 0,
               mode |-> None, walks |-> 0, first |-> 0, nav |-> FALSE,
               run |-> <<>>, navigated |-> FALSE]

\* init_database on a fresh file; the catalog is empty
Init ==
    /\ NoSession
    /\ playlist = NoPlaylist
    /\ seek = NoSeek
    /\ timeline = EmptyTimeline
    /\ cursor = -1
    /\ resume_ms = 0
    /\ songs = {}
    /\ call = [op |-> "init_database", arg |-> None, ret |-> None]
    /\ pre = [timeline |-> EmptyTimeline, cursor |-> -1, resume_ms |-> 0, songs |-> {},
              back_from |-> {}]

AppendSong(song_uid) ==
    IF validate_uid(song_uid)
    THEN /\ Fits(append_song(DB, song_uid))
         /\ Commit(append_song(DB, song_uid))
         /\ Record("append_song", song_uid, "ok")
         /\ UNCHANGED songs
    ELSE /\ Record("append_song", song_uid, "ValueError")
         /\ UNCHANGED <<timeline, cursor, resume_ms, songs>>

AppendSongList(song_uids) ==
    IF song_uids = <<>>
    THEN /\ Record("append_song_list", song_uids, "ok")
         /\ UNCHANGED <<timeline, cursor, resume_ms, songs>>
    ELSE IF \A i \in 1..Len(song_uids) : validate_uid(song_uids[i])
    THEN /\ Fits(append_song_list(DB, song_uids))
         /\ Commit(append_song_list(DB, song_uids))
         /\ Record("append_song_list", song_uids, "ok")
         /\ UNCHANGED songs
    ELSE /\ Record("append_song_list", song_uids, "ValueError")
         /\ UNCHANGED <<timeline, cursor, resume_ms, songs>>

\* skip_back, called by whoever: the caller says what else changes
SkipBackCall ==
    /\ Commit(skip_back(DB, songs))
    /\ Log("skip_back", None, skip_back_ret(DB, songs))
    /\ UNCHANGED songs

SkipBack == SkipBackCall /\ UNCHANGED sessionVars

SkipForwardCall(shuffle) ==
    IF FutureCount(DB) = 0
    THEN IF get_random_song(songs) = {}
         THEN /\ Log("skip_forward", shuffle, None)
              /\ UNCHANGED <<timeline, cursor, resume_ms, songs>>
         ELSE \E random_uid \in get_random_song(songs) :
              /\ Fits(append_random(DB, random_uid))
              /\ Commit(append_random(DB, random_uid))
              /\ Log("skip_forward", shuffle, random_uid)
              /\ UNCHANGED songs
    ELSE \E perm \in Permutations(1..FutureCount(DB)) :
         /\ shuffle \/ perm = [i \in 1..FutureCount(DB) |-> i]
         /\ LET d1 == IF shuffle THEN _shuffle_future(DB, cursor, perm) ELSE DB
            IN  /\ Commit(find_next(d1, cursor, songs))
                /\ Log("skip_forward", shuffle, find_next_ret(d1, cursor, songs))
         /\ UNCHANGED songs

SkipForward(shuffle) == SkipForwardCall(shuffle) /\ UNCHANGED sessionVars

AdvanceCursor ==
    /\ Fits(advance_cursor(DB))
    /\ Commit(advance_cursor(DB))
    /\ Record("advance_cursor", None, None)
    /\ UNCHANGED songs

SetResumeMs(ms) ==
    /\ Commit(set_resume_ms(DB, ms))
    /\ Record("set_resume_ms", ms, None)
    /\ UNCHANGED songs

ClearTimeline ==
    /\ Commit(clear_timeline(DB))
    /\ Record("clear_timeline", None, None)
    /\ UNCHANGED songs

\* song_metadata.add_song / delete_song: the catalog changes under the timeline
AddSong(uid) ==
    /\ validate_uid(uid)
    /\ songs' = songs \cup {uid}
    /\ Record("add_song", uid, uid)
    /\ UNCHANGED <<timeline, cursor, resume_ms>>

DeleteSong(uid) ==
    /\ songs' = songs \ {uid}
    /\ Record("delete_song", uid, None)
    /\ UNCHANGED <<timeline, cursor, resume_ms>>

\* the lists a caller passes to append_song_list: lists of song uids, and
\* such lists followed by a uid of the wrong shape
SongLists(n) == UNION {[1..k -> SongUIDs] : k \in 0..n}
UidLists == SongLists(MaxList) \cup {Append(l, "short") : l \in SongLists(MaxList - 1)}
NlLists ==
    {l \in UNION {[1..k -> SongUIDs \cup {"nl"}] : k \in 1..MaxList} :
        \E i \in 1..Len(l) : l[i] = "nl"}

Next ==
    \/ \E song_uid \in CallerUIDs : AppendSong(song_uid)
    \/ \E song_uids \in UidLists : AppendSongList(song_uids)
    \/ SkipBack
    \/ \E shuffle \in BOOLEAN : SkipForward(shuffle)
    \/ AdvanceCursor
    \/ \E ms \in ResumeOffsets : SetResumeMs(ms)
    \/ ClearTimeline
    \/ \E uid \in SongUIDs : AddSong(uid)
    \/ \E uid \in SongUIDs : DeleteSong(uid)

Spec == Init /\ [][Next]_vars

\* the same machine when a caller also passes a uid that ends in a newline
NextNl ==
    \/ Next
    \/ AppendSong("nl")
    \/ \E song_uids \in NlLists : AppendSongList(song_uids)

SpecNl == Init /\ [][NextNl]_vars

(***************************************************************************)
(* The playback session (src/play_song.py).  The backend is python-vlc:    *)
(* get_state, get_time and get_length read it, play, pause, stop and       *)
(* set_time drive it, and it advances by itself while it plays.  The clock *)
(* time.time() and the backend advance together in steps of ClockStep      *)
(* seconds.                                                                *)
(***************************************************************************)
ClockStep == 5
get_length == 5000

get_state(v) == v.state
get_time(v) == v.time

player_play(v) ==
    CASE v.state = "Paused" -> [v EXCEPT !.state = "Playing"]
      [] v.state = "Playing" -> v
      [] OTHER -> [state |-> "Playing", time |-> 0]

\* libvlc pause() toggles
player_pause(v) ==
    CASE v.state = "Playing" -> [v EXCEPT !.state = "Paused"]
      [] v.state = "Paused" -> [v EXCEPT !.state = "Playing"]
      [] OTHER -> v

player_stop(v) == [state |-> "Stopped", time |-> 0]

set_time(v, ms) ==
    IF v.state \in {"Playing", "Paused"} THEN [v EXCEPT !.time = ms] ELSE v

\* the backend plays on for ClockStep seconds
Advance(v) ==
    IF v.state # "Playing" THEN v
    ELSE IF v.time + ClockStep * 1000 >= get_length
         THEN [state |-> "Ended", time |-> get_length]
         ELSE [v EXCEPT !.time = @ + ClockStep * 1000]

\* MusicPlayer.play up to the start of the keyboard thread
play(p, song_uid, loop_mode, t) ==
    [p EXCEPT !.current_song_uid = song_uid, !.should_exit = FALSE,
              !.is_stopped = FALSE, !.pending_song_uid = None,
              !.exit_reason = "ended", !.loop_mode = loop_mode,
              !.loop_count = 0, !.total_played_time = 0,
              !.listen_log_count = 0, !.is_playing = TRUE, !.start_time = {t}]

\* thread t has written the fields fs
Wrote(t, fs) ==
    [f \in Fields |-> IF f \in fs THEN seen.writers[f] \cup {t} ELSE seen.writers[f]]

\* _check_and_log_listen from the duration on, with current_total computed;
\* then _update_progress
Duration(p) == IF p.last_duration > 0 THEN p.last_duration ELSE get_length \div 1000

Crossed(p, current_total) ==
    /\ p.current_song_uid # None
    /\ Duration(p) > 0
    /\ 10 * current_total >= (p.listen_log_count + 1) * 7 * Duration(p)

_update_progress(p) ==
    IF ~p.is_stopped /\ get_length \div 1000 > 0
    THEN [p EXCEPT !.last_duration = get_length \div 1000] ELSE p

\* a listen of the current play-through: the count it brings
\* listen_log_count to, and the time since the play-through began
Listen(p) == [n |-> p.listen_log_count + 1, wall |-> now - seen.play_through]

\* the end of _check_and_log_listen followed by what the caller does next:
\* in the poll loop _update_progress and the sleep, in _on_song_end the
\* assignment of the exit reason
AfterCheck(current_total, next_pc) ==
    /\ player' = LET p == IF Crossed(player, current_total)
                          THEN [player EXCEPT !.listen_log_count = @ + 1]
                          ELSE player
                 IN  IF next_pc = "loop" THEN _update_progress(p) ELSE p
    /\ seen' = IF Crossed(player, current_total)
               THEN [seen EXCEPT !.listens = @ \cup {Listen(player)},
                                 !.writers = Wrote("main", {"listen_log_count"})]
               ELSE seen
    /\ main_thread' = [main_thread EXCEPT !.pc = next_pc, !.current_total = 0]

StoreUnchanged ==
    UNCHANGED <<timeline, cursor, resume_ms, songs, call, pre, playlist, seek>>

\* while not self.should_exit: if self.player.get_state() == Ended
PollLoop ==
    /\ main_thread.pc = "loop"
    /\ main_thread' = [main_thread EXCEPT !.pc =
            IF player.should_exit THEN "capture"
            ELSE IF get_state(vlc) = "Ended" THEN "end" ELSE "check"]
    /\ UNCHANGED <<player, vlc, now, keyboard_thread, seen>>
    /\ StoreUnchanged

\* _on_song_end: if self.start_time
OnSongEnd ==
    /\ main_thread.pc = "end"
    /\ main_thread' = [main_thread EXCEPT !.pc =
            IF player.start_time # NoTime THEN "end_add" ELSE "end_check"]
    /\ UNCHANGED <<player, vlc, now, keyboard_thread, seen>>
    /\ StoreUnchanged

\* self.total_played_time += time.time() - self.start_time
OnSongEndAdd ==
    /\ main_thread.pc = "end_add"
    /\ IF player.start_time = NoTime
       THEN /\ main_thread' = [main_thread EXCEPT !.pc = "raised"]
            /\ UNCHANGED <<player, seen>>
       ELSE /\ player' = [player EXCEPT !.total_played_time = @ + now - Since(player.start_time)]
            /\ seen' = [seen EXCEPT !.writers = Wrote("main", {"total_played_time"})]
            /\ main_thread' = [main_thread EXCEPT !.pc = "end_clear"]
    /\ UNCHANGED <<vlc, now, keyboard_thread>>
    /\ StoreUnchanged

\* self.start_time = None
OnSongEndClear ==
    /\ main_thread.pc = "end_clear"
    /\ player' = [player EXCEPT !.start_time = NoTime]
    /\ seen' = [seen EXCEPT !.writers = Wrote("main", {"start_time"})]
    /\ main_thread' = [main_thread EXCEPT !.pc = "end_check"]
    /\ UNCHANGED <<vlc, now, keyboard_thread>>
    /\ StoreUnchanged

\* _check_and_log_listen: current_total = self.total_played_time;
\* if self.is_playing and self.start_time
CheckAndLogListen ==
    /\ main_thread.pc \in {"check", "end_check"}
    /\ LET next_pc == IF main_thread.pc = "check" THEN "loop" ELSE "end_reason"
       IN  IF player.current_song_uid # None /\ player.is_playing
              /\ player.start_time # NoTime
           THEN /\ main_thread' = [main_thread EXCEPT
                        !.pc = IF main_thread.pc = "check" THEN "check_add"
                               ELSE "end_check_add",
                        !.current_total = player.total_played_time]
                /\ UNCHANGED <<player, seen>>
           ELSE AfterCheck(player.total_played_time, next_pc)
    /\ UNCHANGED <<vlc, now, keyboard_thread>>
    /\ StoreUnchanged

\* current_total += time.time() - self.start_time
CheckAndLogListenAdd ==
    /\ main_thread.pc \in {"check_add", "end_check_add"}
    /\ IF player.start_time = NoTime
       THEN /\ main_thread' = [main_thread EXCEPT !.pc = "raised", !.current_total = 0]
            /\ UNCHANGED <<player, seen>>
       ELSE AfterCheck(main_thread.current_total + now - Since(player.start_time),
                       IF main_thread.pc = "check_add" THEN "loop" ELSE "end_reason")
    /\ UNCHANGED <<vlc, now, keyboard_thread>>
    /\ StoreUnchanged

\* _on_song_end: self.exit_reason = "ended"; back in the loop: loop or break
OnSongEndReason ==
    /\ main_thread.pc = "end_reason"
    /\ player' = [player EXCEPT !.exit_reason = "ended"]
    /\ seen' = [seen EXCEPT !.writers = Wrote("main", {"exit_reason"})]
    /\ main_thread' = [main_thread EXCEPT !.pc =
            IF player.loop_mode THEN "restart" ELSE "capture"]
    /\ UNCHANGED <<vlc, now, keyboard_thread>>
    /\ StoreUnchanged

\* mutant: the listen count of the finished iteration is kept
LoopRestart_keep ==
    /\ main_thread.pc = "restart"
    /\ player' = [player EXCEPT !.loop_count = @ + 1, !.total_played_time = 0,
                                !.is_playing = TRUE, !.start_time = {now}]
    /\ vlc' = player_play(set_time(vlc, 0))
    /\ seen' = [seen EXCEPT !.play_through = now, !.listens = {}]
    /\ main_thread' = [main_thread EXCEPT !.pc = "loop"]
    /\ UNCHANGED <<now, keyboard_thread>>
    /\ StoreUnchanged

\* the next loop iteration
LoopRestart ==
    /\ main_thread.pc = "restart"
    /\ player' = [player EXCEPT !.loop_count = @ + 1, !.total_played_time = 0,
                                !.listen_log_count = 0, !.is_playing = TRUE,
                                !.start_time = {now}]
    /\ vlc' = player_play(set_time(vlc, 0))
    /\ seen' = [seen EXCEPT !.play_through = now, !.listens = {},
                            !.writers = Wrote("main", {"total_played_time",
                                "listen_log_count", "is_playing", "start_time"})]
    /\ main_thread' = [main_thread EXCEPT !.pc = "loop"]
    /\ UNCHANGED <<now, keyboard_thread>>
    /\ StoreUnchanged

\* after the loop: the position for resume
CapturePosition ==
    /\ main_thread.pc = "capture"
    /\ player' = [player EXCEPT !.last_position_ms =
            IF player.exit_reason \in {"skip", "abort", "navigate"}
            THEN get_time(vlc) ELSE 0]
    /\ seen' = [seen EXCEPT !.exit_position = get_time(vlc)]
    /\ main_thread' = [main_thread EXCEPT !.pc = "set_exit"]
    /\ UNCHANGED <<vlc, now, keyboard_thread>>
    /\ StoreUnchanged

\* self.should_exit = True
SignalExit ==
    /\ main_thread.pc = "set_exit"
    /\ player' = [player EXCEPT !.should_exit = TRUE]
    /\ seen' = [seen EXCEPT !.writers = Wrote("main", {"should_exit"})]
    /\ main_thread' = [main_thread EXCEPT !.pc = "join"]
    /\ UNCHANGED <<vlc, now, keyboard_thread>>
    /\ StoreUnchanged

\* the keyboard thread is inside a call of the timeline store
InStore(k) == k.pc \in {"prev", "next"}

\* keyboard_thread.join(timeout=0.5); self.player.stop().  The thread polls
\* the flag every 10 ms; the join can only time out while the thread is
\* held up in a handler, which the store's file locks can do for seconds
JoinAndStop ==
    /\ main_thread.pc = "join"
    /\ keyboard_thread.pc \in {"done", "raised"} \/ InStore(keyboard_thread)
    /\ vlc' = player_stop(vlc)
    /\ main_thread' = [main_thread EXCEPT !.pc = "returned"]
    /\ UNCHANGED <<player, now, keyboard_thread, seen>>
    /\ StoreUnchanged

(***************************************************************************)
(* The keyboard thread.  A key is read when select reports one; the model  *)
(* lets any key arrive at any time, MaxKeys of them in all.                *)
(***************************************************************************)
key_actions == {"space", "s", "r", "g", "h"}
exit_keys == [q |-> "skip", x |-> "abort"]
Keys == key_actions \cup DOMAIN exit_keys

MainUnchanged == UNCHANGED <<main_thread, now>>

\* the thread is a daemon: it is gone with the process when an exception
\* leaves the main thread (no caller of play_song catches it)
Alive == main_thread.pc # "raised"

\* the thread between two keys, and its move to the next statement
Idle == [pc |-> "loop", song |-> None, key |-> None]
Goto(k, pc) == IF pc = "loop" THEN Idle ELSE [k EXCEPT !.pc = pc]

\* while not self.should_exit: one key is read and dispatched.  For space
\* and s the handler's tests of is_stopped, is_playing and start_time are
\* part of the step.
ReadKey(char) ==
    /\ Alive
    /\ keyboard_thread.pc = "loop"
    /\ ~player.should_exit
    /\ seen.keys < MaxKeys
    /\ seen' = [seen EXCEPT !.keys = @ + 1]
    /\ keyboard_thread' = Goto([keyboard_thread EXCEPT !.key = char],
            CASE char = "space" ->
                    IF player.is_stopped THEN "loop"
                    ELSE IF ~player.is_playing THEN "resume"
                    ELSE IF player.start_time # NoTime THEN "pause_add" ELSE "pause"
              [] char = "s" -> "stop"
              [] char = "r" -> "restart"
              [] char = "g" -> "prev"
              [] char = "h" -> "next"
              [] OTHER -> "exit_reason")
    /\ UNCHANGED <<player, vlc>>
    /\ MainUnchanged /\ StoreUnchanged

\* the loop test finds the flag set: finally, the thread ends
KeyboardExit ==
    /\ Alive
    /\ keyboard_thread.pc = "loop"
    /\ player.should_exit
    /\ keyboard_thread' = [Idle EXCEPT !.pc = "done"]
    /\ UNCHANGED <<player, vlc, seen>>
    /\ MainUnchanged /\ StoreUnchanged

\* _toggle_play_pause and _stop: self.total_played_time += time.time() - self.start_time
AddElapsed ==
    /\ Alive
    /\ keyboard_thread.pc \in {"pause_add", "stop_add"}
    /\ IF player.start_time = NoTime
       THEN /\ keyboard_thread' = [Idle EXCEPT !.pc = "raised"]
            /\ UNCHANGED <<player, seen>>
       ELSE /\ player' = [player EXCEPT !.total_played_time = @ + now - Since(player.start_time)]
            /\ seen' = [seen EXCEPT !.writers = Wrote("keyboard", {"total_played_time"})]
            /\ keyboard_thread' = [keyboard_thread EXCEPT !.pc =
                    IF keyboard_thread.pc = "pause_add" THEN "pause_clear" ELSE "stop_clear"]
    /\ UNCHANGED vlc
    /\ MainUnchanged /\ StoreUnchanged

\* self.start_time = None
ClearStart ==
    /\ Alive
    /\ keyboard_thread.pc \in {"pause_clear", "stop_clear"}
    /\ player' = [player EXCEPT !.start_time = NoTime]
    /\ seen' = [seen EXCEPT !.writers = Wrote("keyboard", {"start_time"})]
    /\ keyboard_thread' = Goto(keyboard_thread,
            IF keyboard_thread.pc = "pause_clear" THEN "pause" ELSE "loop")
    /\ UNCHANGED vlc
    /\ MainUnchanged /\ StoreUnchanged

\* _toggle_play_pause: self.player.pause(); self.is_playing = False
Pause ==
    /\ Alive
    /\ keyboard_thread.pc = "pause"
    /\ vlc' = player_pause(vlc)
    /\ player' = [player EXCEPT !.is_playing = FALSE]
    /\ seen' = [seen EXCEPT !.writers = Wrote("keyboard", {"is_playing"})]
    /\ keyboard_thread' = Idle
    /\ MainUnchanged /\ StoreUnchanged

\* _toggle_play_pause, else branch
Resume ==
    /\ Alive
    /\ keyboard_thread.pc = "resume"
    /\ vlc' = player_play(vlc)
    /\ player' = [player EXCEPT !.is_playing = TRUE, !.start_time = {now}]
    /\ seen' = [seen EXCEPT !.writers = Wrote("keyboard", {"is_playing", "start_time"})]
    /\ keyboard_thread' = Idle
    /\ MainUnchanged /\ StoreUnchanged

\* _stop up to the test of start_time
Stop ==
    /\ Alive
    /\ keyboard_thread.pc = "stop"
    /\ vlc' = player_stop(vlc)
    /\ player' = [player EXCEPT !.is_playing = FALSE, !.is_stopped = TRUE]
    /\ seen' = [seen EXCEPT !.writers = Wrote("keyboard", {"is_playing", "is_stopped"})]
    /\ keyboard_thread' = Goto(keyboard_thread,
            IF player.start_time # NoTime THEN "stop_add" ELSE "loop")
    /\ MainUnchanged /\ StoreUnchanged

\* _restart
Restart ==
    /\ Alive
    /\ keyboard_thread.pc = "restart"
    /\ IF ~player.is_playing
       THEN /\ vlc' = player_play(set_time(vlc, 0))
            /\ player' = [player EXCEPT !.is_playing = TRUE, !.is_stopped = FALSE,
                                        !.start_time = {now}]
            /\ seen' = [seen EXCEPT !.writers =
                    Wrote("keyboard", {"is_playing", "is_stopped", "start_time"})]
       ELSE /\ vlc' = set_time(vlc, 0)
            /\ UNCHANGED <<player, seen>>
    /\ keyboard_thread' = Idle
    /\ MainUnchanged /\ StoreUnchanged

\* _previous_song: prev_song = playback_timeline.skip_back(); if prev_song
PreviousSong ==
    /\ Alive
    /\ keyboard_thread.pc = "prev"
    /\ SkipBackCall
    /\ keyboard_thread' = Goto([keyboard_thread EXCEPT !.song = call'.ret],
            IF call'.ret # None THEN "pending" ELSE "loop")
    /\ seen' = [seen EXCEPT !.nav = @ \/ call'.ret # None]
    /\ UNCHANGED <<player, vlc>>
    /\ MainUnchanged

\* _next_song: next_song = playback_timeline.skip_forward(shuffle=False)
NextSong ==
    /\ Alive
    /\ keyboard_thread.pc = "next"
    /\ SkipForwardCall(FALSE)
    /\ keyboard_thread' = Goto([keyboard_thread EXCEPT !.song = call'.ret],
            IF call'.ret # None THEN "pending" ELSE "loop")
    /\ seen' = [seen EXCEPT !.nav = @ \/ call'.ret # None]
    /\ UNCHANGED <<player, vlc>>
    /\ MainUnchanged

\* self.pending_song_uid = prev_song (next_song)
SetPending ==
    /\ Alive
    /\ keyboard_thread.pc = "pending"
    /\ player' = [player EXCEPT !.pending_song_uid = keyboard_thread.song]
    /\ seen' = [seen EXCEPT !.writers = Wrote("keyboard", {"pending_song_uid"})]
    /\ keyboard_thread' = [keyboard_thread EXCEPT !.pc = "exit_reason", !.song = None]
    /\ UNCHANGED vlc
    /\ MainUnchanged /\ StoreUnchanged

\* self.exit_reason = "navigate", or exit_keys[char]
SetExitReason ==
    /\ Alive
    /\ keyboard_thread.pc = "exit_reason"
    /\ player' = [player EXCEPT !.exit_reason =
            IF keyboard_thread.key \in DOMAIN exit_keys
            THEN exit_keys[keyboard_thread.key] ELSE "navigate"]
    /\ seen' = [seen EXCEPT !.writers = Wrote("keyboard", {"exit_reason"})]
    /\ keyboard_thread' = [keyboard_thread EXCEPT !.pc = "should_exit"]
    /\ UNCHANGED vlc
    /\ MainUnchanged /\ StoreUnchanged

\* self.should_exit = True
SetShouldExit ==
    /\ Alive
    /\ keyboard_thread.pc = "should_exit"
    /\ player' = [player EXCEPT !.should_exit = TRUE]
    /\ seen' = [seen EXCEPT !.writers = Wrote("keyboard", {"should_exit"})]
    /\ keyboard_thread' = Idle
    /\ UNCHANGED vlc
    /\ MainUnchanged /\ StoreUnchanged

\* ClockStep seconds pass
Tick ==
    /\ main_thread.pc \notin {"menu", "returned", "raised",
                             "walk_head", "walk_nav", "walk_back"}
    /\ now < MaxTicks * ClockStep
    /\ now' = now + ClockStep
    /\ vlc' = Advance(vlc)
    /\ UNCHANGED <<player, main_thread, keyboard_thread, seen>>
    /\ StoreUnchanged

\* the timelines a session is started on: the cursor is on the song played
Started ==
    {[timeline |-> (0 :> "s1" @@ 1 :> "s2"), cursor |-> 1],
     [timeline |-> (0 :> "s1" @@ 1 :> "s2"), cursor |-> 0]}

\* play_song.play_song(path, song_uid, title, loop_mode) has started the
\* keyboard thread
InitSession ==
    /\ \E st \in Started, loop_mode \in BOOLEAN :
        /\ timeline = st.timeline
        /\ cursor = st.cursor
        /\ player = play(MusicPlayer, st.timeline[st.cursor], loop_mode, 0)
    /\ resume_ms = 0
    /\ playlist = NoPlaylist
    /\ seek = NoSeek
    /\ songs = SongUIDs
    /\ call = [op |-> "get_current_song", arg |-> None, ret |-> timeline[cursor]]
    /\ pre = [timeline |-> timeline, cursor |-> cursor, resume_ms |-> 0,
              songs |-> songs, back_from |-> {}]
    /\ vlc = [state |-> "Playing", time |-> 0]
    /\ now = 0
    /\ main_thread = [pc |-> "loop", current_total |-> 0, caller |-> "_play_song",
                      walk |-> NoWalk]
    /\ keyboard_thread = Idle
    /\ seen = [keys |-> 0, writers |-> [f \in Fields |-> {}],
               play_through |-> 0, listens |-> {}, exit_position |-> 0,
               mode |-> None, walks |-> 0, first |-> 0, nav |-> FALSE,
               run |-> <<>>, navigated |-> FALSE]

\* the steps of play() when loop_mode is off
PlayOnce ==
    \/ PollLoop
    \/ OnSongEnd
    \/ OnSongEndAdd
    \/ OnSongEndClear
    \/ CheckAndLogListen
    \/ CheckAndLogListenAdd
    \/ OnSongEndReason
    \/ CapturePosition
    \/ SignalExit
    \/ JoinAndStop

MainStep == PlayOnce \/ LoopRestart

KeyboardStep ==
    \/ \E char \in Keys : ReadKey(char)
    \/ KeyboardExit
    \/ AddElapsed
    \/ ClearStart
    \/ Pause
    \/ Resume
    \/ Stop
    \/ Restart
    \/ PreviousSong
    \/ NextSong
    \/ SetPending
    \/ SetExitReason
    \/ SetShouldExit

NextSession == MainStep \/ KeyboardStep \/ Tick

SpecSession == InitSession /\ [][NextSession]_vars

\* both threads are scheduled again and again
SpecSessionFair == SpecSession /\ WF_vars(MainStep) /\ WF_vars(KeyboardStep)

(***************************************************************************)
(* The coordinator (src/cli_menu.py): the menu commands that start a       *)
(* session and what they do with the store when the session has returned.  *)
(* One keyboard thread is followed at a time: a session starts when the    *)
(* thread of the session before it is over.                                *)
(***************************************************************************)
Modes == {"history", "history_r", "alpha", "random"}

\* play_song.play_song(..., start_ms): MusicPlayer.play up to the poll loop
StartSessionAt(song_uid, loop_mode, caller, start_ms) ==
    /\ keyboard_thread.pc \in {"unborn", "done", "raised"}
    /\ player' = play(player, song_uid, loop_mode, now)
    /\ vlc' = IF start_ms > 0 THEN set_time([state |-> "Playing", time |-> 0], start_ms)
              ELSE [state |-> "Playing", time |-> 0]
    /\ main_thread' = [main_thread EXCEPT !.pc = "loop", !.current_total = 0,
                                          !.caller = caller]
    /\ keyboard_thread' = Idle
    /\ seen' = [seen EXCEPT !.writers = [f \in Fields |-> {}], !.listens = {},
                            !.play_through = now, !.exit_position = 0,
                            !.mode = None, !.nav = FALSE,
                            !.run = IF caller = "_play_playlist"
                                    THEN Append(@, main_thread.walk.i) ELSE @]
    /\ UNCHANGED now

StartSession(song_uid, loop_mode, caller) == StartSessionAt(song_uid, loop_mode, caller, 0)

\* Enter at the menu: _handle_resume_current up to the poll loop
HandleResume ==
    /\ main_thread.pc = "menu"
    /\ cursor \in DOMAIN timeline
    /\ get_song(timeline[cursor], songs)
    /\ StartSessionAt(timeline[cursor], FALSE, "_play_song", resume_ms)
    /\ StoreUnchanged

\* a song number at the menu: _play_song(song) up to the poll loop
HandleNumber(uid) ==
    /\ main_thread.pc = "menu"
    /\ get_song(uid, songs)
    /\ Fits(append_song(DB, uid))
    /\ Commit(append_song(DB, uid))
    /\ Log("append_song", uid, "ok")
    /\ StartSession(uid, FALSE, "_play_song")
    /\ UNCHANGED songs

\* loop <number>: _handle_loop up to the poll loop
HandleLoop(uid) ==
    /\ main_thread.pc = "menu"
    /\ get_song(uid, songs)
    /\ Fits(append_song(DB, uid))
    /\ Commit(append_song(DB, uid))
    /\ Log("append_song", uid, "ok")
    /\ StartSession(uid, TRUE, "_handle_loop")
    /\ UNCHANGED songs

_pick_next_alpha_song_uid_same(d, catalog) ==
    IF d.cursor \in DOMAIN d.timeline THEN d.timeline[d.cursor] ELSE None

\* _pick_next_alpha_song_uid with the catalog ordered s1, s2
_pick_next_alpha_song_uid(d, catalog) ==
    LET current_uid == IF d.cursor \in DOMAIN d.timeline THEN d.timeline[d.cursor] ELSE None
    IN  IF catalog = {} THEN None
        ELSE IF current_uid = "s1" /\ "s2" \in catalog THEN "s2"
        ELSE IF "s1" \in catalog THEN "s1" ELSE "s2"

\* _pick_next_current with the configured mode
PickNextCurrent(mode) ==
    CASE mode = "history" -> SkipForwardCall(FALSE)
      [] mode = "history_r" -> SkipBackCall
      [] OTHER ->
            \E uid \in IF mode = "alpha" THEN {_pick_next_alpha_song_uid(DB, songs)}
                        ELSE IF get_random_song(songs) = {} THEN {None}
                        ELSE get_random_song(songs) :
                IF uid # None
                THEN /\ Fits(append_song(DB, uid))
                     /\ Commit(append_song(DB, uid))
                     /\ Log("append_song", uid, "ok")
                     /\ UNCHANGED songs
                ELSE StoreUnchanged

\* the mode read from the user's settings and the pick made with it
PickNext ==
    \E mode \in Modes :
        /\ PickNextCurrent(mode)
        /\ seen' = [seen EXCEPT !.mode = mode]

ToMenu ==
    /\ main_thread' = [main_thread EXCEPT !.pc = "menu"]
    /\ player' = [player EXCEPT !.pending_song_uid = None]
    /\ UNCHANGED <<vlc, now, keyboard_thread>>

SaveResume ==
    /\ Commit(set_resume_ms(DB, player.last_position_ms))
    /\ Log("set_resume_ms", player.last_position_ms, None)
    /\ UNCHANGED songs

\* _play_song after play_song has returned: get_pending_song, then the
\* resume offset, the next current song, or the pending song is played
AfterPlaySong ==
    /\ main_thread.pc = "returned"
    /\ main_thread.caller = "_play_song"
    /\ IF player.pending_song_uid = None
       THEN /\ IF player.exit_reason # "ended" THEN SaveResume /\ UNCHANGED seen
               ELSE PickNext
            /\ ToMenu
       ELSE IF ~get_song(player.pending_song_uid, songs)
       THEN /\ IF player.exit_reason # "ended" THEN SaveResume
               ELSE StoreUnchanged
            /\ ToMenu
            /\ UNCHANGED seen
       ELSE /\ StartSession(player.pending_song_uid, FALSE, "_play_song")
            /\ StoreUnchanged

\* _handle_loop after play_song has returned
AfterLoop ==
    /\ main_thread.pc = "returned"
    /\ main_thread.caller = "_handle_loop"
    /\ IF player.pending_song_uid # None /\ get_song(player.pending_song_uid, songs)
       THEN StartSession(player.pending_song_uid, FALSE, "_play_song")
       ELSE ToMenu /\ UNCHANGED seen
    /\ StoreUnchanged

\* the menu of a library with the songs s1 and s2 and a fresh timeline
InitMenu ==
    /\ NoSession
    /\ playlist = NoPlaylist
    /\ seek = NoSeek
    /\ timeline = EmptyTimeline
    /\ cursor = -1
    /\ resume_ms = 0
    /\ songs = SongUIDs
    /\ call = [op |-> "init_database", arg |-> None, ret |-> None]
    /\ pre = [timeline |-> EmptyTimeline, cursor |-> -1, resume_ms |-> 0,
              songs |-> SongUIDs, back_from |-> {}]

NextMenu ==
    \/ \E uid \in SongUIDs : HandleNumber(uid)
    \/ \E uid \in SongUIDs : HandleLoop(uid)
    \/ HandleResume
    \/ AfterPlaySong
    \/ AfterLoop
    \/ NextSession

SpecMenu == InitMenu /\ [][NextMenu]_vars

(***************************************************************************)
(* The queue walk (_play_playlist): a playlist, an ad-hoc queue of song    *)
(* numbers, or the shuffled library is loaded into the timeline and played *)
(* entry by entry; every entry is played by _play_song(song,               *)
(* _from_timeline=True, _single_nav=True, _in_playlist=True).              *)
(***************************************************************************)
\* the queues handed to _play_playlist, after random.shuffle when asked for:
\* an ad-hoc queue may name a song twice
Queues == SongLists(MaxList) \ {<<>>}

\* _play_playlist up to the loop: append_song_list(valid_uids), then
\* timeline_base = get_cursor() - 1
PlayPlaylist(songs_) ==
    /\ main_thread.pc = "menu"
    /\ seen.walks < MaxWalks
    /\ Fits(append_song_list(DB, songs_))
    /\ Commit(append_song_list(DB, songs_))
    /\ Log("append_song_list", songs_, "ok")
    /\ main_thread' = [pc |-> "walk_head", current_total |-> 0,
                       caller |-> "_play_playlist",
                       walk |-> [song_list |-> songs_,
                                 timeline_base |-> append_song_list(DB, songs_).cursor - 1,
                                 i |-> 0, aborted |-> FALSE, navigated_away |-> FALSE]]
    /\ seen' = [seen EXCEPT !.walks = @ + 1, !.mode = None, !.nav = FALSE,
                            !.run = <<>>, !.navigated = FALSE,
                            !.first = Max(DOMAIN timeline') - Len(songs_) + 1]
    /\ UNCHANGED <<songs, player, vlc, now, keyboard_thread>>

\* while i < len(song_list): a song that is not in the library is skipped,
\* another one is played; after the loop _pick_next_current()
WalkHead ==
    /\ main_thread.pc = "walk_head"
    /\ LET w == main_thread.walk
           n == Len(w.song_list)
       IN  IF w.i >= n
           THEN /\ PickNext
                /\ main_thread' = [main_thread EXCEPT !.pc = "menu"]
                /\ UNCHANGED <<player, vlc, now, keyboard_thread>>
           ELSE IF ~get_song(w.song_list[w.i + 1], songs)
           THEN /\ IF w.i < n - 1
                   THEN /\ Fits(advance_cursor(DB))
                        /\ Commit(advance_cursor(DB))
                        /\ Log("advance_cursor", None, None)
                        /\ UNCHANGED songs
                   ELSE StoreUnchanged
                /\ main_thread' = [main_thread EXCEPT !.walk.i = @ + 1]
                /\ UNCHANGED <<player, vlc, now, keyboard_thread, seen>>
           ELSE /\ StartSession(w.song_list[w.i + 1], FALSE, "_play_playlist")
                /\ StoreUnchanged

AfterPlaySongInQueue_chains ==
    /\ main_thread.pc = "returned"
    /\ main_thread.caller = "_play_playlist"
    /\ player.pending_song_uid # None
    /\ StartSession(player.pending_song_uid, FALSE, "_play_playlist")
    /\ StoreUnchanged

\* what _play_song does when play_song has returned, with _single_nav and
\* _in_playlist set: get_pending_song(); without a pending song the position
\* is saved unless the song ended; with one the routine returns True
AfterPlaySongInQueue ==
    /\ main_thread.pc = "returned"
    /\ main_thread.caller = "_play_playlist"
    /\ LET pending_uid == player.pending_song_uid
           navigated == pending_uid # None /\ get_song(pending_uid, songs)
       IN  /\ IF ~navigated /\ player.exit_reason # "ended" THEN SaveResume
              ELSE StoreUnchanged
           /\ main_thread' = [main_thread EXCEPT
                    !.pc = IF navigated THEN "walk_nav" ELSE "walk_back"]
           /\ seen' = [seen EXCEPT !.navigated = @ \/ navigated]
    /\ player' = [player EXCEPT !.pending_song_uid = None]
    /\ UNCHANGED <<vlc, now, keyboard_thread>>

\* _play_playlist when _play_song has returned True
WalkNavigated ==
    /\ main_thread.pc = "walk_nav"
    /\ LET w == main_thread.walk
           current_cursor == cursor
           landed_index == current_cursor - w.timeline_base - 1
       IN  main_thread' =
             IF player.exit_reason = "abort"
             THEN [main_thread EXCEPT !.pc = "menu", !.walk.aborted = TRUE]
             ELSE IF landed_index < 0 \/ landed_index >= Len(w.song_list)
             THEN [main_thread EXCEPT !.pc = "menu", !.walk.navigated_away = TRUE]
             ELSE [main_thread EXCEPT !.pc = "walk_head", !.walk.i = landed_index]
    /\ UNCHANGED <<player, vlc, now, keyboard_thread, seen>>
    /\ StoreUnchanged

\* mutant: the index is not raised after a skip or a natural end
WalkBack_again ==
    /\ main_thread.pc = "walk_back"
    /\ main_thread' = IF player.exit_reason = "abort"
                      THEN [main_thread EXCEPT !.pc = "menu", !.walk.aborted = TRUE]
                      ELSE [main_thread EXCEPT !.pc = "walk_head"]
    /\ StoreUnchanged
    /\ UNCHANGED <<player, vlc, now, keyboard_thread, seen>>

\* _play_playlist when _play_song has returned False
WalkBack ==
    /\ main_thread.pc = "walk_back"
    /\ LET w == main_thread.walk
       IN  IF player.exit_reason = "abort"
           THEN /\ main_thread' = [main_thread EXCEPT !.pc = "menu", !.walk.aborted = TRUE]
                /\ StoreUnchanged
           ELSE /\ IF w.i < Len(w.song_list) - 1
                   THEN /\ Fits(advance_cursor(DB))
                        /\ Commit(advance_cursor(DB))
                        /\ Log("advance_cursor", None, None)
                        /\ UNCHANGED songs
                   ELSE StoreUnchanged
                /\ main_thread' = [main_thread EXCEPT !.pc = "walk_head", !.walk.i = @ + 1]
    /\ UNCHANGED <<player, vlc, now, keyboard_thread, seen>>

\* the menu of a library with the songs s1 and s2; nothing has been played,
\* or s2 has been played and left with Q
Played ==
    {[timeline |-> EmptyTimeline, cursor |-> -1],
     [timeline |-> (0 :> "s2"), cursor |-> 0]}

InitQueue ==
    /\ NoSession
    /\ playlist = NoPlaylist
    /\ seek = NoSeek
    /\ \E st \in Played : timeline = st.timeline /\ cursor = st.cursor
    /\ resume_ms = 0
    /\ songs = SongUIDs
    /\ call = [op |-> "init_database", arg |-> None, ret |-> None]
    /\ pre = [timeline |-> timeline, cursor |-> cursor, resume_ms |-> 0,
              songs |-> SongUIDs, back_from |-> {}]

NextQueue ==
    \/ \E songs_ \in Queues : PlayPlaylist(songs_)
    \/ WalkHead
    \/ AfterPlaySongInQueue
    \/ WalkNavigated
    \/ WalkBack
    \/ PlayOnce
    \/ KeyboardStep
    \/ Tick

SpecQueue == InitQueue /\ [][NextQueue]_vars

\* the same menu when s2 has been deleted from the library: a playlist
\* keeps the items of a deleted song (get_playlist_songs is a LEFT JOIN)
InitQueueGone ==
    /\ NoSession
    /\ playlist = NoPlaylist
    /\ seek = NoSeek
    /\ \E st \in Played : timeline = st.timeline /\ cursor = st.cursor
    /\ resume_ms = 0
    /\ songs = {"s1"}
    /\ call = [op |-> "init_database", arg |-> None, ret |-> None]
    /\ pre = [timeline |-> timeline, cursor |-> cursor, resume_ms |-> 0,
              songs |-> {"s1"}, back_from |-> {}]

SpecQueueGone == InitQueueGone /\ [][NextQueue]_vars

(***************************************************************************)
(* Playlists (src/playlists.py): the items of one playlist.  Every         *)
(* operation runs in one connection and commits once, or raises and is     *)
(* rolled back; an operation gives the items it leaves and what it returns. *)
(***************************************************************************)
\* db_utils.get_next_position: (MAX(position) or 0) + 1
get_next_position(items) ==
    (IF items = {} THEN 0 ELSE Max({r.position : r \in items})) + 1

\* _renumber_positions of playlists.py: the rows ORDER BY position, id get
\* 1, 2, ...; nothing is done when max_position_before_delete is the
\* number of rows + 1.  max_position_before_delete is <<>> for None and
\* <<m>> for the integer m
playlists_renumber_positions(items, max_position_before_delete) ==
    IF max_position_before_delete # <<>>
       /\ max_position_before_delete[1] = Cardinality(items) + 1
    THEN items
    ELSE {[r EXCEPT !.position = 1 + Cardinality({q \in items :
                \/ q.position < r.position
                \/ q.position = r.position /\ q.id < r.id})] : r \in items}

add_to_playlist(items, seq, song_uid) ==
    IF ~validate_uid(song_uid) THEN [items |-> items, ret |-> "ValueError"]
    ELSE [items |-> items \cup {[id |-> seq + 1, song_uid |-> song_uid,
                                 position |-> get_next_position(items)]},
          ret |-> None]

add_multiple_to_playlist(items, seq, song_uids) ==
    IF \E i \in DOMAIN song_uids : ~validate_uid(song_uids[i])
    THEN [items |-> items, ret |-> "ValueError"]
    ELSE [items |-> items \cup {[id |-> seq + i, song_uid |-> song_uids[i],
                                 position |-> get_next_position(items) + i - 1] :
                                        i \in DOMAIN song_uids},
          ret |-> None]

insert_at_position(items, seq, song_uid, position) ==
    IF ~validate_uid(song_uid) \/ position < 1
       \/ position > get_next_position(items)
    THEN [items |-> items, ret |-> "ValueError"]
    ELSE [items |-> {IF r.position >= position THEN [r EXCEPT !.position = @ + 1] ELSE r :
                        r \in items}
                    \cup {[id |-> seq + 1, song_uid |-> song_uid, position |-> position]},
          ret |-> None]

remove_by_position_max(items, position) ==
    IF {r \in items : r.position = position} = {}
    THEN [items |-> items, ret |-> FALSE]
    ELSE [items |-> playlists_renumber_positions(
                        {r \in items : r.position # position},
                        <<Max({r.position : r \in items})>>),
          ret |-> TRUE]

\* remove_by_position: MAX(position) OVER () ranges over the rows the WHERE
\* clause selects, the rows at that position, so max_position is position
remove_by_position(items, position) ==
    IF {r \in items : r.position = position} = {}
    THEN [items |-> items, ret |-> FALSE]
    ELSE [items |-> playlists_renumber_positions(
                        {r \in items : r.position # position}, <<position>>),
          ret |-> TRUE]

remove_by_uid(items, song_uid) ==
    IF ~validate_uid(song_uid) THEN [items |-> items, ret |-> "ValueError"]
    ELSE [items |-> playlists_renumber_positions(
                        {r \in items : r.song_uid # song_uid}, <<>>),
          ret |-> None]

move_song(items, from_position, to_position) ==
    IF from_position = to_position THEN [items |-> items, ret |-> TRUE]
    ELSE IF from_position < 1 \/ to_position < 1 THEN [items |-> items, ret |-> FALSE]
    ELSE IF items = {} THEN [items |-> items, ret |-> FALSE]
    ELSE IF from_position > Max({r.position : r \in items})
            \/ to_position > Max({r.position : r \in items})
    THEN [items |-> items, ret |-> FALSE]
    ELSE IF {r \in items : r.position = from_position} = {}
    THEN [items |-> items, ret |-> FALSE]
    ELSE LET item_id == (CHOOSE r \in items : r.position = from_position).id
             Shift(r) ==
                IF from_position < to_position
                THEN IF r.position > from_position /\ r.position <= to_position
                     THEN [r EXCEPT !.position = @ - 1] ELSE r
                ELSE IF r.position >= to_position /\ r.position < from_position
                     THEN [r EXCEPT !.position = @ + 1] ELSE r
         IN  [items |-> {IF r.id = item_id THEN [r EXCEPT !.position = to_position]
                         ELSE Shift(r) : r \in items},
              ret |-> TRUE]

\* shuffle_playlist: the ids in the order random.shuffle leaves them
shuffle_playlist(items, item_ids) ==
    [items |-> {[r EXCEPT !.position = CHOOSE i \in DOMAIN item_ids : item_ids[i] = r.id] :
                    r \in items},
     ret |-> None]

\* the orders of the ids of the items
Shuffles(items) ==
    {o \in [1..Cardinality(items) -> {r.id : r \in items}] :
        \A i, j \in DOMAIN o : i # j => o[i] # o[j]}

\* a call on the playlist has returned res
PlaylistCall(op, arg, res) ==
    /\ Cardinality(res.items) <= MaxItems
    /\ \A r \in res.items : r.id <= MaxIds
    /\ playlist' = [items |-> res.items,
                    seq |-> Max({playlist.seq} \cup {r.id : r \in res.items}),
                    call |-> [op |-> op, arg |-> arg, ret |-> res.ret],
                    pre |-> playlist.items]
    /\ UNCHANGED <<timeline, cursor, resume_ms, songs, call, pre, seek>>
    /\ UNCHANGED sessionVars

\* the positions a caller passes
Positions == 0..(MaxItems + 1)

NextPlaylist ==
    \/ \E u \in CallerUIDs :
            PlaylistCall("add_to_playlist", u, add_to_playlist(playlist.items, playlist.seq, u))
    \/ \E us \in SongLists(MaxList) :
            PlaylistCall("add_multiple_to_playlist", us,
                         add_multiple_to_playlist(playlist.items, playlist.seq, us))
    \/ \E u \in SongUIDs, p \in Positions :
            PlaylistCall("insert_at_position", <<u, p>>,
                         insert_at_position(playlist.items, playlist.seq, u, p))
    \/ \E p \in Positions :
            PlaylistCall("remove_by_position", <<p>>, remove_by_position(playlist.items, p))
    \/ \E u \in SongUIDs :
            PlaylistCall("remove_by_uid", u, remove_by_uid(playlist.items, u))
    \/ \E from_position, to_position \in Positions :
            PlaylistCall("move_song", <<from_position, to_position>>,
                         move_song(playlist.items, from_position, to_position))
    \/ \E item_ids \in Shuffles(playlist.items) :
            PlaylistCall("shuffle_playlist", None, shuffle_playlist(playlist.items, item_ids))

SpecPlaylist == Init /\ [][NextPlaylist]_vars

(***************************************************************************)
(* Seeking (MusicPlayer._seek): the keys a, A, d and D move the position   *)
(* by a fixed offset.  The machine draws what the backend reports, a       *)
(* position (-1 when it has none) and a length in ms, and applies one key. *)
(***************************************************************************)
\* key_actions: the offsets of the seek keys in ms
seek_offsets == [a |-> -5000, A |-> -30000, d |-> 5000, D |-> 30000]

\* _seek: the new_time handed to self.player.set_time
_seek(current_time, duration, milliseconds) ==
    LET new_time == Max({0, current_time + milliseconds})
    IN  IF duration > 0 THEN Min({new_time, duration - 1000}) ELSE new_time

\* a seek key is handled
Seek(char) ==
    /\ seek.set_time = {}
    /\ seek' = [seek EXCEPT !.key = char,
                            !.set_time = {_seek(seek.get_time, seek.get_length,
                                                seek_offsets[char])}]
    /\ UNCHANGED <<timeline, cursor, resume_ms, songs, call, pre, playlist>>
    /\ UNCHANGED sessionVars

InitSeek ==
    /\ NoSession
    /\ playlist = NoPlaylist
    /\ timeline = EmptyTimeline
    /\ cursor = -1
    /\ resume_ms = 0
    /\ songs = {}
    /\ call = [op |-> "init_database", arg |-> None, ret |-> None]
    /\ pre = [timeline |-> EmptyTimeline, cursor |-> -1, resume_ms |-> 0,
              songs |-> {}, back_from |-> {}]
    /\ \E t \in {-1} \cup {500 * k : k \in 0..MaxDuration},
          l \in {500 * k : k \in 0..MaxDuration} :
            seek = [NoSeek EXCEPT !.get_time = t, !.get_length = l]

NextSeek == \E char \in DOMAIN seek_offsets : Seek(char)

SpecSeek == InitSeek /\ [][NextSeek]_vars

(***************************************************************************)
(* Storage faults.  Every helper opens its own connection and commits on   *)
(* its own, so an sqlite3 error raised in one statement of an operation    *)
(* leaves what the earlier helpers committed.  The operators below list,   *)
(* in order, the persisted states an operation passes through; a fault in  *)
(* the k-th transaction leaves the k-th of them.                           *)
(***************************************************************************)
append_song_commits(d, song_uid) ==
    LET cursor_pos == d.cursor
        d1 == _delete_future(d, cursor_pos)
        new_pos == cursor_pos + 1
        d2 == [d1 EXCEPT !.timeline = InsertRow(@, new_pos, song_uid)]
        d3 == _set_cursor(d2, new_pos)
        d4 == _prune_deletes(d3, MAX_PAST_ENTRIES)
    IN  <<d, d1, d2, d3, d4>>

append_song_list_commits(d, song_uids) ==
    LET cursor_pos == d.cursor
        d1 == _delete_future(d, cursor_pos)
        d2 == [d1 EXCEPT !.timeline = InsertList(@, song_uids, cursor_pos, 0)]
        d3 == _set_cursor(d2, cursor_pos + 1)
        d4 == _prune_deletes(d3, MAX_PAST_ENTRIES)
    IN  <<d, d1, d2, d3, d4>>

\* skip_forward: the INSERT of the random song, or _shuffle_future, commits
\* before _set_cursor runs
skip_forward_commits(d, shuffle, random_uid, perm) ==
    IF FutureCount(d) = 0
    THEN <<d, [d EXCEPT !.timeline = InsertRow(@, d.cursor + 1, random_uid)]>>
    ELSE <<d, IF shuffle THEN _shuffle_future(d, d.cursor, perm) ELSE d>>

AppendSongFault(song_uid) ==
    /\ validate_uid(song_uid)
    /\ \E k \in DOMAIN append_song_commits(DB, song_uid) :
        /\ Fits(append_song_commits(DB, song_uid)[k])
        /\ Commit(append_song_commits(DB, song_uid)[k])
    /\ Record("append_song", song_uid, "OperationalError")
    /\ UNCHANGED songs

AppendSongListFault(song_uids) ==
    /\ song_uids # <<>>
    /\ \A i \in 1..Len(song_uids) : validate_uid(song_uids[i])
    /\ \E k \in DOMAIN append_song_list_commits(DB, song_uids) :
        /\ Fits(append_song_list_commits(DB, song_uids)[k])
        /\ Commit(append_song_list_commits(DB, song_uids)[k])
    /\ Record("append_song_list", song_uids, "OperationalError")
    /\ UNCHANGED songs

SkipForwardFault(shuffle) ==
    /\ FutureCount(DB) = 0 => get_random_song(songs) # {}
    /\ \E random_uid \in get_random_song(songs) \cup {None},
          perm \in Permutations(1..FutureCount(DB)) :
      \E k \in DOMAIN skip_forward_commits(DB, shuffle, random_uid, perm) :
        /\ (random_uid = None) = (FutureCount(DB) # 0)
        /\ Fits(skip_forward_commits(DB, shuffle, random_uid, perm)[k])
        /\ Commit(skip_forward_commits(DB, shuffle, random_uid, perm)[k])
    /\ Record("skip_forward", shuffle, "OperationalError")
    /\ UNCHANGED songs

NextFault ==
    \/ Next
    \/ \E song_uid \in SongUIDs : AppendSongFault(song_uid)
    \/ \E song_uids \in SongLists(MaxList) : AppendSongListFault(song_uids)
    \/ \E shuffle \in BOOLEAN : SkipForwardFault(shuffle)

SpecFault == Init /\ [][NextFault]_vars

(***************************************************************************)
(* Properties.                                                             *)
(***************************************************************************)
\* a 16-character alphanumeric string, the shape generate_uid produces
WellFormed(uid) ==
    /\ UidShape(uid).is_str
    /\ UidShape(uid).body = 16
    /\ UidShape(uid).body_alnum
    /\ ~UidShape(uid).final_nl

\* the song_uids of the rows at the positions S, in position order
Refs(tl, S) == [i \in 1..Cardinality(S) |-> tl[OrderByPosition(S)[i]]]

Past(tl, c) == {p \in DOMAIN tl : p < c}
UpTo(tl, c) == {p \in DOMAIN tl : p <= c}
Future(tl, c) == {p \in DOMAIN tl : p > c}

IsSuffix(s, t) ==
    /\ Len(s) <= Len(t)
    /\ \A i \in 1..Len(s) : s[i] = t[Len(t) - Len(s) + i]

Smaller(a, b) == IF a <= b THEN a ELSE b

Unchanged ==
    /\ timeline = pre.timeline
    /\ cursor = pre.cursor
    /\ resume_ms = pre.resume_ms

AppendSongDone == call.op = "append_song" /\ call.ret = "ok"

AppendSongListDone ==
    /\ call.op = "append_song_list"
    /\ call.ret = "ok"
    /\ call.arg # <<>>

\* C1: after append_song(ref) with a well-formed ref the row at the cursor
\* holds ref, no row lies beyond the cursor, the rows below the cursor are
\* the rows that lay at or below the old cursor, in order, less the oldest
\* ones that pruning removed, and the resume offset is 0.
C1_AppendSong ==
    (AppendSongDone /\ WellFormed(call.arg)) =>
        /\ cursor \in DOMAIN timeline
        /\ timeline[cursor] = call.arg
        /\ Future(timeline, cursor) = {}
        /\ IsSuffix(Refs(timeline, Past(timeline, cursor)),
                    Refs(pre.timeline, UpTo(pre.timeline, pre.cursor)))
        /\ Cardinality(Past(timeline, cursor)) =
               Smaller(Cardinality(UpTo(pre.timeline, pre.cursor)), MAX_PAST_ENTRIES)
        /\ resume_ms = 0

\* C1 witness: an append that discarded a future, pruned the past and reset
\* a saved resume offset
C1_Witness ==
    /\ AppendSongDone
    /\ Future(pre.timeline, pre.cursor) # {}
    /\ Cardinality(UpTo(pre.timeline, pre.cursor)) > MAX_PAST_ENTRIES
    /\ pre.resume_ms > 0

\* C2: append_song_list(refs) with non-empty well-formed refs, duplicates
\* allowed, discards the rows beyond the old cursor, leaves the cursor on a
\* row holding refs[0] and the rows after the cursor are refs[1..] in order.
C2_AppendSongList ==
    (AppendSongListDone /\ \A i \in 1..Len(call.arg) : WellFormed(call.arg[i])) =>
        /\ cursor \in DOMAIN timeline
        /\ timeline[cursor] = call.arg[1]
        /\ Refs(timeline, Future(timeline, cursor)) = Tail(call.arg)
        /\ IsSuffix(Refs(timeline, Past(timeline, cursor)),
                    Refs(pre.timeline, UpTo(pre.timeline, pre.cursor)))

\* C3: the timeline is empty with the cursor at -1, or a row exists at the
\* cursor position.
C3_CursorOnEntry ==
    \/ timeline = EmptyTimeline /\ cursor = -1
    \/ cursor \in DOMAIN timeline

CursorMover ==
    \/ AppendSongDone
    \/ AppendSongListDone
    \/ call.op \in {"skip_back", "skip_forward"} /\ call.ret # None
    \/ call.op = "advance_cursor"
    \/ call.op = "clear_timeline" /\ pre.cursor # -1

\* C4: every operation that changes the cursor position leaves the resume
\* offset at 0; a non-zero resume offset is seen only while the cursor has
\* not moved since set_resume_ms.
C4_CursorMoveResetsResume ==
    (CursorMover \/ cursor # pre.cursor) => resume_ms = 0

Resolves(tl, p, catalog) == p \in DOMAIN tl /\ tl[p] \in catalog

\* C5: skip_back moves the cursor to the greatest position below it whose
\* song resolves and returns that song; when the cursor is <= 0 or no such
\* row exists it returns None and changes nothing; it never touches a row.
C5_SkipBack ==
    call.op = "skip_back" =>
        /\ timeline = pre.timeline
        /\ IF pre.cursor > 0 /\ \E p \in 0..(pre.cursor - 1) :
                                   Resolves(pre.timeline, p, pre.songs)
           THEN /\ cursor < pre.cursor
                /\ Resolves(pre.timeline, cursor, pre.songs)
                /\ \A q \in (cursor + 1)..(pre.cursor - 1) :
                       ~Resolves(pre.timeline, q, pre.songs)
                /\ call.ret = pre.timeline[cursor]
           ELSE call.ret = None /\ Unchanged

\* C5 witness: a skip_back that passed over a row whose song is gone
C5_Witness ==
    /\ call.op = "skip_back"
    /\ call.ret # None
    /\ \E q \in (cursor + 1)..(pre.cursor - 1) : q \in DOMAIN timeline

\* C6: skip_forward(shuffle=False) with no row beyond the cursor returns a
\* song of the catalog, adds exactly one row holding it at cursor+1 and moves
\* the cursor onto it; with an empty catalog it returns None and changes
\* nothing.
C6_SkipForwardEmptyFuture ==
    (call.op = "skip_forward" /\ call.arg = FALSE
        /\ Future(pre.timeline, pre.cursor) = {}) =>
        IF pre.songs # {}
        THEN /\ call.ret \in pre.songs
             /\ pre.cursor + 1 \notin DOMAIN pre.timeline
             /\ DOMAIN timeline = DOMAIN pre.timeline \cup {pre.cursor + 1}
             /\ \A p \in DOMAIN pre.timeline : timeline[p] = pre.timeline[p]
             /\ timeline[pre.cursor + 1] = call.ret
             /\ cursor = pre.cursor + 1
        ELSE call.ret = None /\ Unchanged

\* C6 witness: a second random append in a row, after a song left the catalog
C6_Witness ==
    /\ call.op = "skip_forward" /\ call.arg = FALSE
    /\ Future(pre.timeline, pre.cursor) = {}
    /\ call.ret # None
    /\ pre.cursor >= 0
    /\ pre.songs # SongUIDs

SameRefs(s, t) ==
    \A uid \in AllUIDs :
        Cardinality({i \in DOMAIN s : s[i] = uid}) =
        Cardinality({i \in DOMAIN t : t[i] = uid})

\* C7: skip_forward with rows beyond the cursor moves the cursor to the
\* smallest position above it whose song resolves and returns that song;
\* shuffle only permutes the songs among the positions beyond the cursor;
\* rows at or below the old cursor are untouched, none is added or removed.
C7_SkipForwardFuture ==
    (call.op = "skip_forward" /\ Future(pre.timeline, pre.cursor) # {}) =>
        /\ DOMAIN timeline = DOMAIN pre.timeline
        /\ \A p \in UpTo(pre.timeline, pre.cursor) : timeline[p] = pre.timeline[p]
        /\ SameRefs(Refs(timeline, Future(timeline, pre.cursor)),
                    Refs(pre.timeline, Future(pre.timeline, pre.cursor)))
        /\ (call.arg = FALSE => timeline = pre.timeline)
        /\ (\E p \in Future(timeline, pre.cursor) : Resolves(timeline, p, pre.songs)) =>
                /\ cursor > pre.cursor
                /\ Resolves(timeline, cursor, pre.songs)
                /\ \A q \in (pre.cursor + 1)..(cursor - 1) :
                       ~Resolves(timeline, q, pre.songs)
                /\ call.ret = timeline[cursor]

\* C7 witness: a shuffling skip that reordered the future and passed over a
\* row whose song is gone
C7_Witness ==
    /\ call.op = "skip_forward" /\ call.arg = TRUE
    /\ timeline # pre.timeline
    /\ call.ret # None
    /\ cursor > pre.cursor + 1

BackThenForward ==
    /\ call.op = "skip_forward" /\ call.arg = FALSE
    /\ pre.back_from # {}

\* C8 as stated: skip_back that returned a song, then skip_forward(False):
\* returns the song that was at the cursor before the skip_back and puts the
\* cursor back there, adding no row.
C8_BackForward_AsStated ==
    BackThenForward =>
        \A c \in pre.back_from :
            /\ c \in DOMAIN pre.timeline
            /\ call.ret = pre.timeline[c]
            /\ cursor = c
            /\ timeline = pre.timeline

\* C8 amended: the same, provided the song that was at the cursor before the
\* skip_back still resolves in the catalog.
C8_BackForward ==
    BackThenForward =>
        \A c \in pre.back_from :
            Resolves(pre.timeline, c, pre.songs) =>
                /\ call.ret = pre.timeline[c]
                /\ cursor = c
                /\ timeline = pre.timeline

\* C8 witness: back over a row whose song is gone, then forward again
C8_Witness ==
    /\ BackThenForward
    /\ \E c \in pre.back_from :
          /\ Resolves(pre.timeline, c, pre.songs)
          /\ c > pre.cursor + 1
          /\ pre.cursor + 1 \in DOMAIN pre.timeline

Inserted == IF AppendSongDone THEN <<call.arg>> ELSE call.arg

\* C9: after append_song or append_song_list at most MAX_PAST_ENTRIES rows
\* lie below the cursor, only the oldest rows were removed, and the song at
\* the cursor is the one the append put there.
C9_PruneWindow ==
    (AppendSongDone \/ AppendSongListDone) =>
        /\ Cardinality(Past(timeline, cursor)) <= MAX_PAST_ENTRIES
        /\ IsSuffix(Refs(timeline, DOMAIN timeline),
                    Refs(pre.timeline, UpTo(pre.timeline, pre.cursor)) \o Inserted)
        /\ cursor \in DOMAIN timeline
        /\ timeline[cursor] = IF AppendSongDone THEN call.arg ELSE call.arg[1]

Malformed(arg) ==
    IF call.op = "append_song" THEN ~WellFormed(arg)
    ELSE \E i \in 1..Len(arg) : ~WellFormed(arg[i])

\* C10: append_song with a malformed uid, and append_song_list with a list
\* holding a malformed uid, fail with an error and change nothing.
C10_MalformedRejected ==
    (call.op \in {"append_song", "append_song_list"} /\ Malformed(call.arg)) =>
        call.ret = "ValueError" /\ Unchanged

PreDB == [timeline |-> pre.timeline, cursor |-> pre.cursor, resume_ms |-> pre.resume_ms]

\* the complete results of the call recorded in call, made in state pre
Completed ==
    CASE call.op = "append_song" -> DB = append_song(PreDB, call.arg)
      [] call.op = "append_song_list" -> DB = append_song_list(PreDB, call.arg)
      [] call.op = "skip_forward" ->
            IF FutureCount(PreDB) = 0
            THEN \E random_uid \in pre.songs : DB = append_random(PreDB, random_uid)
            ELSE \E perm \in Permutations(1..FutureCount(PreDB)) :
                    DB = find_next(IF call.arg THEN _shuffle_future(PreDB, pre.cursor, perm)
                                   ELSE PreDB, pre.cursor, pre.songs)
      [] OTHER -> FALSE

\* C11: after a storage fault inside append_song, append_song_list or
\* skip_forward the persisted state is the state before the call or the
\* complete result of the operation, never a combination in between.
C11_FaultAtomic ==
    call.ret = "OperationalError" => (Unchanged \/ Completed)

(***************************************************************************)
(* Properties of the playback session.                                     *)
(***************************************************************************)
Returned == main_thread.pc = "returned"
KeyboardOver == keyboard_thread.pc \in {"done", "raised"}
OnPending ==
    cursor \in DOMAIN timeline /\ timeline[cursor] = player.pending_song_uid

\* C12: a previous/next key calls skip_back / skip_forward first, then sets
\* the pending target, then the exit reason navigate, then the exit flag;
\* so whenever a pending target or a navigate exit can be observed, the
\* cursor is on the timeline entry that holds the pending target.
C12_NavigateAfterCursor ==
    /\ player.pending_song_uid # None => OnPending
    /\ player.exit_reason = "navigate" => player.pending_song_uid # None
    /\ keyboard_thread.pc = "pending" =>
            /\ call.op \in {"skip_back", "skip_forward"}
            /\ call.ret = keyboard_thread.song
            /\ timeline[cursor] = keyboard_thread.song
    /\ keyboard_thread.key \in {"g", "h"} /\ keyboard_thread.pc = "should_exit" =>
            player.exit_reason \in {"navigate", "ended"}

C12_Witness ==
    /\ Returned /\ KeyboardOver
    /\ player.exit_reason = "navigate"
    /\ call.op = "skip_back"
    /\ player.pending_song_uid = timeline[cursor]
    /\ cursor # pre.cursor

\* C13: when the session has returned, last_position_ms is 0 if the exit
\* reason is ended, and the backend position read at exit if the exit
\* reason is skip, abort or navigate.
C13_LastPosition ==
    Returned /\ KeyboardOver =>
        player.last_position_ms =
            IF player.exit_reason = "ended" THEN 0 ELSE seen.exit_position

\* C14: when the session has returned, a pending target is set exactly if
\* the exit reason is navigate.
C14_OneExitReason ==
    Returned /\ KeyboardOver =>
        (player.pending_song_uid # None <=> player.exit_reason = "navigate")

\* C15: while the session runs, every shared field other than the exit flag
\* is written by one thread only.
C15_SingleWriter ==
    \A f \in Fields \ {"should_exit"} : Cardinality(seen.writers[f]) <= 1

\* C16: a listen is logged only when the played time of the play-through
\* has reached listen_log_count x 0.7 x duration (the count after the
\* listen); the played time never exceeds the time since the play-through
\* began, so that time has reached the threshold too.  Each listen raises
\* listen_log_count by one.
C16_ListenThreshold ==
    /\ \A l \in seen.listens : 10 * l.wall >= l.n * 7 * (get_length \div 1000)
    /\ \A l \in seen.listens : l.n <= player.listen_log_count
    /\ Cardinality(seen.listens) <= player.listen_log_count

LeftLoop == main_thread.pc \in {"capture", "set_exit", "join", "returned"}

\* C17: in loop mode a natural end does not end the session: after the
\* final listen check (which leaves the exit reason ended) the played time
\* and the listen count are reset to 0, the loop count is raised by one and
\* the backend plays from 0; the poll loop is left only after the keyboard
\* thread has set the exit flag.
C17_LoopMode ==
    /\ [](player.loop_mode /\ LeftLoop => "keyboard" \in seen.writers["should_exit"])
    /\ [][player.loop_mode /\ main_thread.pc = "end_reason" =>
                main_thread'.pc \in {"end_reason", "restart"}]_vars
    /\ [][main_thread.pc = "restart" /\ main_thread'.pc # "restart" =>
            /\ player'.total_played_time = 0
            /\ player'.listen_log_count = 0
            /\ player'.loop_count = player.loop_count + 1
            /\ vlc' = [state |-> "Playing", time |-> 0]
            /\ main_thread'.pc = "loop"]_vars

\* a listen in the second iteration, then the return after a key
C17_Witness ==
    /\ player.loop_mode /\ Returned
    /\ player.loop_count = 1
    /\ player.listen_log_count = 1
    /\ seen.listens # {}
    /\ player.exit_reason = "skip"

\* C18: when the session has returned, the keyboard thread has ended.
C18_ThreadEnded == Returned => KeyboardOver

\* C19: once the exit flag is set, the session returns and the keyboard
\* thread ends.
C19_ExitFlagStops == player.should_exit ~> (Returned /\ KeyboardOver)

\* C20: when a session started by the coordinator has returned with exit
\* reason skip or abort and the coordinator is back at the menu, the last
\* call on the store is set_resume_ms(last_position_ms), made with the
\* cursor on the interrupted song.
C20_ResumeStored ==
    /\ main_thread.pc = "menu"
    /\ player.current_song_uid # None
    /\ player.exit_reason \in {"skip", "abort"}
    => /\ call.op = "set_resume_ms"
       /\ call.arg = player.last_position_ms
       /\ resume_ms = player.last_position_ms
       /\ cursor = pre.cursor
       /\ cursor \in DOMAIN timeline
       /\ timeline[cursor] = player.current_song_uid

(***************************************************************************)
(* Properties of the coordinator.                                          *)
(***************************************************************************)
AtMenu == main_thread.pc = "menu"
Walk == main_thread.walk
OnPlayed ==
    cursor \in DOMAIN timeline /\ timeline[cursor] = player.current_song_uid

\* C21: when a session of a queue walk has returned with exit reason abort,
\* the walk is over: the last call on the store is the set_resume_ms of the
\* aborted session (no advance_cursor, no pick of a next current song), no
\* further session has started, and the cursor is on the aborted song with
\* the saved offset.
C21_AbortEndsWalk ==
    AtMenu /\ Walk.aborted =>
        /\ player.exit_reason = "abort"
        /\ player.current_song_uid = Walk.song_list[Walk.i + 1]
        /\ call.op = "set_resume_ms"
        /\ seen.mode = None
        /\ cursor = pre.cursor
        /\ resume_ms = player.last_position_ms
        /\ OnPlayed

\* the coordinator acts on a session that has returned
CoordinatorStep == Returned /\ main_thread' # main_thread
Navigated ==
    player.pending_song_uid # None /\ get_song(player.pending_song_uid, songs)

Landed == cursor - seen.first
InQueue(l) == l \in 0..(Len(Walk.song_list) - 1)

\* C23: after a navigate exit inside a queue of length n whose first entry
\* is at position b, the walk is abandoned without a further session and
\* without a pick if cursor - b is outside [0, n); otherwise the next
\* session plays queue element cursor - b, and the coordinator moves the
\* cursor by no call of its own before that session starts.
C23_LocalIndex ==
    /\ [][main_thread.pc = "walk_nav" /\ main_thread' # main_thread
            /\ player.exit_reason # "abort" =>
                /\ call' = call /\ cursor' = cursor
                /\ IF InQueue(Landed)
                   THEN /\ main_thread'.pc = "walk_head"
                        /\ main_thread'.walk.i = Landed
                   ELSE /\ main_thread'.pc = "menu"
                        /\ main_thread'.walk.navigated_away
                        /\ seen'.mode = None]_vars
    /\ [][main_thread.pc = "walk_head" /\ main_thread'.pc = "loop" =>
                /\ player'.current_song_uid = Walk.song_list[Walk.i + 1]
                /\ call' = call /\ cursor' = cursor]_vars

\* C24: from the commit of a key's cursor move until the coordinator starts
\* the next session or is back at the menu, no step of the main thread
\* calls the store: the cursor stays where the key put it.
C24_CursorGroundTruth ==
    [][seen.nav /\ ~AtMenu /\ main_thread' # main_thread =>
            call' = call /\ cursor' = cursor /\ timeline' = timeline]_vars

\* _play_song has returned False to the walk after a natural end
EndedInQueue ==
    /\ main_thread.pc = "walk_back" /\ main_thread' # main_thread
    /\ player.exit_reason = "ended"
LastEntry == Walk.i = Len(Walk.song_list) - 1
Advanced ==
    /\ call'.op = "advance_cursor" /\ cursor' = cursor + 1
    /\ main_thread'.pc = "walk_head" /\ main_thread'.walk.i = Walk.i + 1
    /\ timeline' = timeline

EndedStandalone ==
    /\ CoordinatorStep
    /\ main_thread.caller = "_play_song"
    /\ player.pending_song_uid = None
    /\ player.exit_reason = "ended"

\* the song after uid in the library sorted by title (s1, s2), wrapping
AlphaSuccessor(uid) == IF uid = "s1" THEN "s2" ELSE "s1"

\* the song picked by the step, as the store call of the step tells it
Picked == IF call'.op = "append_song" THEN call'.arg ELSE call'.ret

SessionStarts == main_thread.pc # "loop" /\ main_thread'.pc = "loop"
    /\ main_thread.pc \in {"menu", "returned", "walk_head"}

\* C28: a session starts from the state of a MusicPlayer made for it: the
\* fields at session start are those of a new instance on which play has
\* run, whatever the sessions before it left behind (last_duration, the
\* duration of the listen threshold, and last_position_ms included).
C28_FreshSession ==
    [][SessionStarts =>
        player' = play(MusicPlayer, player'.current_song_uid, player'.loop_mode, now)]_vars

\* C31: when the coordinator starts a session, the timeline entry at the
\* cursor holds the UID of the song that is played; in a queue walk whose
\* first entry was inserted at position b the cursor is b + i when the
\* session of element i starts.
C31_CursorOnPlayed ==
    [][SessionStarts =>
        /\ cursor' \in DOMAIN timeline'
        /\ timeline'[cursor'] = player'.current_song_uid
        /\ main_thread.pc = "walk_head" => cursor' = seen.first + main_thread.walk.i]_vars

\* C32: in every state the store can reach, the positions of the n
\* timeline entries are the contiguous range 0..n-1 (the timeline maps a
\* position to one entry, and an entry is only ever inserted above all the
\* entries that remain, so the positions follow the order of insertion).
C32_PositionsContiguous ==
    DOMAIN timeline = 0..(Cardinality(DOMAIN timeline) - 1)

\* the state that append_song or append_song_list hands to
\* _renumber_positions
Renumbered ==
    IF call'.op = "append_song" THEN append_song_commits(DB, call'.arg)[5]
    ELSE append_song_list_commits(DB, call'.arg)[5]

\* C33: _renumber_positions keeps the cursor on the same entry: as many
\* entries lie after the cursor when it returns as when it was called, also
\* when the reference at the cursor occurs at several positions.
C33_RenumberKeepsEntry ==
    [][/\ call'.op \in {"append_song", "append_song_list"} /\ call'.ret = "ok"
       /\ call'.op = "append_song_list" => Len(call'.arg) > 0
       =>
        /\ DB' = _renumber_positions(Renumbered)
        /\ FutureCount(DB') = FutureCount(Renumbered)]_vars

\* C34: after append_song, append_song_list, skip_forward (its append of
\* a random song on an exhausted future included) or advance_cursor, at
\* most MAX_PAST_ENTRIES entries lie below the cursor.
C34_PastWindow ==
    call.op \in {"append_song", "append_song_list", "skip_forward", "advance_cursor"}
        => Cardinality(Past(timeline, cursor)) <= MAX_PAST_ENTRIES

\* C35: when the coordinator returns to the menu after a session that
\* ended naturally, whatever offset it was started from and whatever the
\* next-current mode, the stored resume offset is 0.
C35_EndedClearsResume ==
    [][CoordinatorStep /\ main_thread'.pc = "menu" /\ player.exit_reason = "ended"
        => resume_ms' = 0]_vars

\* skip_forward was called with rows beyond the cursor of which none
\* resolved in the catalog
NoneResolves ==
    /\ call.op = "skip_forward"
    /\ Future(pre.timeline, pre.cursor) # {}
    /\ \A p \in Future(pre.timeline, pre.cursor) : ~Resolves(pre.timeline, p, pre.songs)

C37_NoClearedTimestamp ==
    main_thread.pc # "raised"

\* C38: in every session state is_stopped implies not is_playing; while
\* the session is stopped the play/pause key changes nothing; only the
\* restart key leaves the stopped state, and it sets is_playing; and while
\* the session is stopped no time is added to total_played_time beyond the
\* stop handler's own addition of the time played before the stop.
C38_Stopped ==
    /\ [](player.is_stopped => ~player.is_playing)
    /\ [][player.is_stopped /\ keyboard_thread.key = "space" /\ keyboard_thread.pc # "loop"
            => player' = player /\ vlc' = vlc]_vars
    /\ [][player.is_stopped /\ ~player'.is_stopped
            => keyboard_thread.pc = "restart" /\ player'.is_playing]_vars
    /\ [][player.is_stopped /\ player'.is_stopped /\ keyboard_thread.pc # "stop_add"
            => player'.total_played_time <= player.total_played_time]_vars

\* C39: for every seek key, every position and every length > 0 the
\* backend reports, the position handed to set_time lies in
\* [0, length - 1000]: it is never negative and never within the last second.
C39_SeekClamped ==
    seek.get_length > 0 =>
        \A new_time \in seek.set_time :
            new_time >= 0 /\ new_time <= seek.get_length - 1000

\* the coordinator's loop of _play_playlist takes a step
WalkStep ==
    /\ main_thread.caller = "_play_playlist"
    /\ main_thread.pc \in {"walk_head", "returned", "walk_nav", "walk_back"}
    /\ main_thread' # main_thread

\* C40: in a queue walk over n songs in which no session ended with a
\* Navigate exit, at most n sessions are started, their queue indices
\* increase strictly and each one's song resolves (an entry whose song is
\* gone gets no session); every turn of the loop starts a session, takes
\* note of its return, raises the index or ends the walk, so the walk ends
\* after at most n turns; the next current song is picked only when the
\* index has passed the last entry, and a walk that ended without abort has
\* picked, an aborted one has not.
C40_WalkTerminates ==
    /\ [](~seen.navigated =>
            /\ Len(seen.run) <= Len(Walk.song_list)
            /\ \A j, k \in DOMAIN seen.run : j < k => seen.run[j] < seen.run[k]
            /\ \A j \in DOMAIN seen.run :
                    /\ seen.run[j] < Len(Walk.song_list)
                    /\ get_song(Walk.song_list[seen.run[j] + 1], songs)
            /\ Walk.i <= Len(Walk.song_list)
            /\ AtMenu /\ seen.walks > 0 =>
                    IF Walk.aborted THEN seen.mode = None
                    ELSE seen.mode # None /\ Walk.i = Len(Walk.song_list))
    /\ [][WalkStep /\ ~seen'.navigated =>
            \/ main_thread.pc = "walk_head" /\ main_thread'.pc = "loop"
            \/ main_thread.pc = "returned" /\ main_thread'.pc = "walk_back"
            \/ main_thread'.pc = "walk_head" /\ main_thread'.walk.i = Walk.i + 1
            \/ main_thread'.pc = "menu"]_vars
    /\ [][seen'.mode # seen.mode /\ seen'.mode # None =>
            /\ main_thread.pc = "walk_head" /\ main_thread'.pc = "menu"
            /\ Walk.i >= Len(Walk.song_list)]_vars

\* a walk over two entries, the first without its song, has played the
\* second to its end and picked the next current song
C40_Witness ==
    /\ AtMenu /\ seen.walks > 0 /\ ~seen.navigated /\ ~Walk.aborted
    /\ Len(Walk.song_list) = 2
    /\ ~get_song(Walk.song_list[1], songs)
    /\ seen.run = <<1>>
    /\ player.exit_reason = "ended"
    /\ seen.mode # None

(***************************************************************************)
(* Properties of the playlists.                                            *)
(***************************************************************************)
\* position is not the position of an item of the playlist
OutOfRange(position, items) ==
    \/ position < 1
    \/ items = {}
    \/ position > Max({r.position : r \in items} \cup {0})

\* how many items of the playlist carry each song UID
UidBag(items) ==
    [u \in {r.song_uid : r \in items} |-> Cardinality({r \in items : r.song_uid = u})]

\* C29: move_song and remove_by_position, given a position below 1, above
\* the last position or on a playlist without items, return False and
\* leave the items and their positions as they were.
C29_OutOfRangeFails ==
    (/\ playlist.call.op \in {"move_song", "remove_by_position"}
     /\ \E k \in DOMAIN playlist.call.arg :
            OutOfRange(playlist.call.arg[k], playlist.pre))
        => /\ playlist.call.ret = FALSE
           /\ playlist.items = playlist.pre

\* C30: after any sequence of the playlist operations the positions of the
\* n items are exactly 1..n, no gap and no duplicate, and an operation that
\* neither adds nor removes an item keeps the multiset of song UIDs.
C30_PositionsDense ==
    /\ {r.position : r \in playlist.items} = 1..Cardinality(playlist.items)
    /\ (\/ playlist.call.op \in {"move_song", "shuffle_playlist"}
        \/ {r.id : r \in playlist.items} = {r.id : r \in playlist.pre})
            => UidBag(playlist.items) = UidBag(playlist.pre)

\* an item that was not the last one has been removed by its position and
\* two items are left
C30_Witness ==
    /\ playlist.call.op = "remove_by_position"
    /\ playlist.call.ret = TRUE
    /\ playlist.call.arg[1] < Cardinality(playlist.pre)
    /\ Cardinality(playlist.items) = 2

====
